---- MODULE Spec2Model ----
(***************************************************************************)
(* HEST table generation: the table aggregator of HestDxe.c               *)
(* (AppendErrorSourceDescriptor, InstallHestAcpiTable), the MM gateway     *)
(* handler of HestErrorSourceStandaloneMm.c and the DXE client of          *)
(* HestErrorSourceDxe.c (AppendMmErrorSources).  Spec is the aggregator    *)
(* driven through its protocol; SpecMm adds the DXE client, which runs     *)
(* once, from the entry point of its driver; SpecMmi is the MM gateway     *)
(* handler invoked with CommBuffers of any size.                           *)
(*                                                                         *)
(* Memory is modelled byte by byte: the HEST table buffer is a sequence of *)
(* bytes laid out as EFI_ACPI_6_3_HARDWARE_ERROR_SOURCE_TABLE_HEADER       *)
(* followed by the appended descriptors.  A pointer is "NULL", "Live"      *)
(* (points to an allocated pool buffer) or "Freed" (points to a pool       *)
(* buffer that has been given back with FreePool).                         *)
(***************************************************************************)
EXTENDS Integers, Sequences, FiniteSets, TLC

VARIABLES
  HestTable,          \* mHestDriverData.HestTable: "NULL", "Live" or "Freed"
  CurrentTableSize,   \* mHestDriverData.CurrentTableSize (UINT32)
  TableMem,           \* the bytes of the buffer HestTable points to
  op,                 \* the protocol service called last
  Status,             \* the EFI_STATUS that call returned
  acpi,               \* what that call handed to InstallAcpiTable
  sumLens,            \* history: sum of the sizes of the appends so far
  sumCounts,          \* history: sum of the counts of the appends so far
  appended,           \* history: the lists of the appends so far, concatenated
  onlySuccessfulAppends, \* history: every append so far returned EFI_SUCCESS
                         \* and the table has not been published
  usedAfterFree,      \* history: a freed table buffer has been accessed
  publishFailed,      \* history: InstallAcpiTable has failed for this table
  overrun,            \* history: a copy went past the end of the table buffer
  collected,          \* AppendMmErrorSources has run
  mm,                 \* what AppendMmErrorSources did, when it was called last
  mmi,                \* what the MM gateway handler did, when invoked last
  calls               \* history: number of protocol service calls so far

vars == <<HestTable, CurrentTableSize, TableMem, op, Status, acpi,
          sumLens, sumCounts, appended, onlySuccessfulAppends, usedAfterFree,
          publishFailed, overrun, collected, mm, mmi, calls>>

----------------------------------------------------------------------------
(* Bounds of the model. *)

MaxCalls     == 4      \* protocol service calls in one behaviour
MaxMmCalls   == 2      \* the same, in behaviours with the DXE client
MaxDescBytes == 3      \* descriptor bytes one table may hold
MaxWideCalls == 2      \* append calls in behaviours with lists of 4 GiB

\* The inputs of the callers.
ListLengths == {1, 2}      \* lengths of the descriptor lists passed
ListSizes   == {0, 1, 2}   \* values of ErrorSourceDescriptorListSize
Counts      == {0, 3}      \* values of ErrorSourceDescriptorCount

----------------------------------------------------------------------------
(* EFI_STATUS values. *)

EFI_SUCCESS           == "EFI_SUCCESS"
EFI_INVALID_PARAMETER == "EFI_INVALID_PARAMETER"
EFI_OUT_OF_RESOURCES  == "EFI_OUT_OF_RESOURCES"
EFI_ACCESS_DENIED     == "EFI_ACCESS_DENIED"
EFI_BUFFER_TOO_SMALL  == "EFI_BUFFER_TOO_SMALL"
EFI_BAD_BUFFER_SIZE   == "EFI_BAD_BUFFER_SIZE"
EFI_NOT_FOUND         == "EFI_NOT_FOUND"
EFI_UNSUPPORTED       == "EFI_UNSUPPORTED"
EFI_DEVICE_ERROR      == "EFI_DEVICE_ERROR"
EFI_ABORTED           == "EFI_ABORTED"

EFI_ERROR(S) == S # EFI_SUCCESS

NULL == "NULL"

\* A UINTN (64 bits) is kept as its four 16-bit digits, lowest first.
\* UINTN(n) is the UINTN of a number of the model.
UINTN(n) == << n % 65536, (n \div 65536) % 65536, 0, 0 >>

\* a + b on UINTN: the carry out of the top digit is lost.
UintnAdd(A, B) ==
  LET s1 == A[1] + B[1]
      s2 == A[2] + B[2] + (s1 \div 65536)
      s3 == A[3] + B[3] + (s2 \div 65536)
      s4 == A[4] + B[4] + (s3 \div 65536)
  IN << s1 % 65536, s2 % 65536, s3 % 65536, s4 % 65536 >>

\* a <= b on UINTN
UintnLeq(A, B) ==
  \/ A[4] < B[4]
  \/ A[4] = B[4] /\ A[3] < B[3]
  \/ A[4] = B[4] /\ A[3] = B[3] /\ A[2] < B[2]
  \/ A[4] = B[4] /\ A[3] = B[3] /\ A[2] = B[2] /\ A[1] <= B[1]

\* Truncation of a UINTN to UINT32: its two low digits, as a number of
\* the model.
UINT32(A) == A[2] * 65536 + A[1]

\* The four bytes of the UINT32 a UINTN is truncated to, lowest first.
Uint32Bytes(A) ==
  << A[1] % 256, A[1] \div 256, A[2] % 256, A[2] \div 256 >>
UINT8(n)  == n % 256

Min(a, b) == IF a < b THEN a ELSE b

----------------------------------------------------------------------------
(* Layout of EFI_ACPI_6_3_HARDWARE_ERROR_SOURCE_TABLE_HEADER (byte offsets) *)

HeaderSize        == 40
LengthOffset      == 4
ChecksumOffset    == 9
ErrorCountOffset  == 36

LE32(v) == << v % 256, (v \div 256) % 256, (v \div 65536) % 256,
              (v \div 16777216) % 256 >>

Read32(Buf, Off) ==
  Buf[Off + 1] + 256 * Buf[Off + 2] + 65536 * Buf[Off + 3]
               + 16777216 * Buf[Off + 4]

Write32(Buf, Off, v) ==
  [i \in 1..Len(Buf) |->
     IF i > Off /\ i <= Off + 4 THEN LE32(v)[i - Off] ELSE Buf[i]]

\* The four bytes of the UINT32 at Off, and the UINT32 sum of two such
\* words, carried byte by byte (the carry out of the top byte is lost).
Bytes32(Buf, Off) == << Buf[Off + 1], Buf[Off + 2], Buf[Off + 3], Buf[Off + 4] >>

Add32(B, N) ==
  LET s1 == B[1] + N[1]
      s2 == B[2] + N[2] + (s1 \div 256)
      s3 == B[3] + N[3] + (s2 \div 256)
      s4 == B[4] + N[4] + (s3 \div 256)
  IN << s1 % 256, s2 % 256, s3 % 256, s4 % 256 >>

Write8(Buf, Off, v) ==
  [i \in 1..Len(Buf) |-> IF i = Off + 1 THEN v ELSE Buf[i]]

\* CopyMem (Dst + Off, Src, n)
CopyMem(Dst, Off, Src, n) ==
  [i \in 1..Len(Dst) |->
     IF i > Off /\ i <= Off + n THEN Src[i - Off] ELSE Dst[i]]

\* The fields BuildHestHeader sets: signature "HEST", revision 1 and the
\* OEM / creator values of the platform's PCDs.  Length and Checksum are
\* not assigned by BuildHestHeader: they keep what the stack held.
HestHeader(gLength, gChecksum) ==
     << 72, 69, 83, 84 >>                        \* Signature
  \o gLength                                     \* Length (not assigned)
  \o << 1 >>                                     \* Revision
  \o << gChecksum >>                             \* Checksum (not assigned)
  \o << 65, 82, 77, 76, 84, 68 >>                \* OemId
  \o << 69, 68, 75, 50, 32, 32, 32, 32 >>        \* OemTableId
  \o LE32(2)                                     \* OemRevision
  \o LE32(538976288)                             \* CreatorId
  \o LE32(16777235)                              \* CreatorRevision
  \o LE32(0)                                     \* ErrorSourceCount = 0

\* What an uninitialised stack slot may hold.
StackGarbage8  == {0, 165}
StackGarbage32 == {<< 0, 0, 0, 0 >>, << 255, 255, 255, 255 >>}

----------------------------------------------------------------------------
(* Pool memory. *)

\* ReallocateReservedPool: a new zeroed buffer of NewSize bytes that
\* receives the first min(OldSize, NewSize) bytes of the old buffer, which
\* is then freed; NULL, the old buffer untouched, when the pool is exhausted.
ReallocateReservedPool(OldSize, NewSize, OldBuffer, allocOk) ==
  IF ~allocOk
    THEN [Ptr |-> NULL, Mem |-> << >>]
    ELSE [Ptr |-> "Live",
          Mem |-> [i \in 1..NewSize |->
                     IF i <= Min(OldSize, NewSize) /\ i <= Len(OldBuffer)
                       THEN OldBuffer[i] ELSE 0]]

ReallocateHestTableMemory(OldTableSize, NewTableSize, OldBuffer, allocOk) ==
  ReallocateReservedPool(OldTableSize, NewTableSize, OldBuffer, allocOk)

\* What reading a freed pool buffer may yield: the bytes it held when it
\* was freed, or the fill pattern of the pool allocator (0xAF) everywhere
\* but in the words the model needs to stay within the buffer.
FreedReads(Mem) ==
  IF Len(Mem) < HeaderSize THEN {Mem}
  ELSE {Mem,
        CopyMem([i \in 1..Len(Mem) |-> 175], LengthOffset,
                Bytes32(Mem, LengthOffset), 4)}

----------------------------------------------------------------------------
(* BaseLib checksum services. *)

RECURSIVE CalculateSum8(_, _)
CalculateSum8(Buffer, Length) ==
  IF Length = 0 THEN 0
  ELSE UINT8(CalculateSum8(Buffer, Length - 1) + Buffer[Length])

CalculateCheckSum8(Buffer, Length) ==
  UINT8(256 - CalculateSum8(Buffer, Length))

----------------------------------------------------------------------------
(* HestDxe.c: the table aggregator.                                        *)
(* Each service is an operator from the driver data (T, S, M) =            *)
(* (HestTable, CurrentTableSize, bytes of the buffer), the arguments and   *)
(* the environment's answers e to the driver data after the call and the   *)
(* returned status.                                                        *)

\* BuildHestHeader: allocate the header and populate it.
BuildHestHeader(S, allocOk, gLength, gChecksum) ==
  LET r == ReallocateHestTableMemory(0, HeaderSize, << >>, allocOk) IN
  IF r.Ptr = NULL
    THEN [Status |-> EFI_OUT_OF_RESOURCES, HestTable |-> NULL,
          CurrentTableSize |-> S, TableMem |-> << >>]
    ELSE [Status |-> EFI_SUCCESS, HestTable |-> "Live",
          CurrentTableSize |-> HeaderSize,
          TableMem |-> CopyMem(r.Mem, 0, HestHeader(gLength, gChecksum),
                               HeaderSize)]

IsInvalidAppendArgs_NullOnly(List, ListSize) == List.Null

\* The argument check of AppendErrorSourceDescriptor.
IsInvalidAppendArgs(List, ListSize) == List.Null \/ ListSize = UINTN(0)

\* NewTableSize = CurrentTableSize + ErrorSourceDescriptorListSize: the
\* sum of a UINT32 and a UINTN, stored in a UINT32.
NewTableSizeOf(Size, ListSize) == UINT32(UintnAdd(UINTN(Size), ListSize))

ErrorDescriptorOffset_AfterHeader(Size) == HeaderSize

\* ErrorDescriptorPtr = HestTable + CurrentTableSize.
ErrorDescriptorOffset(Size) == Size

NewErrorSourceCount_Assign(Old, Count) ==
  Add32(<< 0, 0, 0, 0 >>, Uint32Bytes(Count))

\* HestHeaderPtr->ErrorSourceCount += ErrorSourceDescriptorCount (UINT32),
\* on the four bytes of the field.
NewErrorSourceCount(Old, Count) == Add32(Old, Uint32Bytes(Count))

\* A buffer as the n bytes at its address: those past its end read as 0.
Pad(Mem, n) ==
  [i \in 1..(IF Len(Mem) > n THEN Len(Mem) ELSE n) |->
     IF i <= Len(Mem) THEN Mem[i] ELSE 0]

NewHeaderLength_DescriptorsOnly(Size) == Size - HeaderSize

\* HestHeaderPtr->Header.Length = mHestDriverData.CurrentTableSize
NewHeaderLength(Size) == Size

\* AppendErrorSourceDescriptor.  ListSize and Count are UINTN; List.Bytes
\* holds the bytes of the list, or the first of them when the list is
\* longer than any table buffer.  Overrun tells that CopyMem wrote past
\* the end of the buffer: the bytes it wrote there, and the header fields
\* that lie past the end of a buffer shorter than the header, are not
\* part of TableMem.
AppendErrorSourceDescriptor(T, S, M, List, ListSize, Count, e) ==
  IF IsInvalidAppendArgs(List, ListSize)
    THEN [Status |-> EFI_INVALID_PARAMETER, HestTable |-> T,
          CurrentTableSize |-> S, TableMem |-> M, Reused |-> FALSE,
          Overrun |-> FALSE]
  ELSE
  LET hdr == IF T = NULL
               THEN BuildHestHeader(S, e.hdrAlloc, e.gLength, e.gChecksum)
               ELSE [Status |-> EFI_SUCCESS, HestTable |-> T,
                     CurrentTableSize |-> S,
                     TableMem |-> IF T = "Freed" THEN e.freed ELSE M]
  IN
  IF hdr.Status = EFI_OUT_OF_RESOURCES
    THEN [Status |-> hdr.Status, HestTable |-> hdr.HestTable,
          CurrentTableSize |-> hdr.CurrentTableSize,
          TableMem |-> hdr.TableMem, Reused |-> FALSE, Overrun |-> FALSE]
  ELSE
  LET NewTableSize == NewTableSizeOf(hdr.CurrentTableSize, ListSize)
      r == ReallocateHestTableMemory(hdr.CurrentTableSize, NewTableSize,
                                     hdr.TableMem, e.growAlloc)
  IN
  IF r.Ptr = NULL
    \* the pointer is overwritten with NULL; the old buffer is not freed
    THEN [Status |-> EFI_OUT_OF_RESOURCES, HestTable |-> NULL,
          CurrentTableSize |-> hdr.CurrentTableSize, TableMem |-> << >>,
          Reused |-> FALSE, Overrun |-> FALSE]
  ELSE
  LET Room    == IF NewTableSize > hdr.CurrentTableSize
                   THEN NewTableSize - hdr.CurrentTableSize ELSE 0
      Overrun == ~UintnLeq(ListSize, UINTN(Room))
      copied  == CopyMem(r.Mem, ErrorDescriptorOffset(hdr.CurrentTableSize),
                         List.Bytes,
                         IF Overrun THEN Room ELSE UINT32(ListSize))
      withLen == Write32(Pad(copied, HeaderSize), LengthOffset,
                         NewHeaderLength(NewTableSize))
      withCnt == CopyMem(withLen, ErrorCountOffset,
                         NewErrorSourceCount(Bytes32(withLen, ErrorCountOffset),
                                             Count), 4)
  IN [Status |-> EFI_SUCCESS, HestTable |-> "Live",
      CurrentTableSize |-> NewTableSize,
      TableMem |-> SubSeq(withCnt, 1, NewTableSize),
      Reused |-> (T = "Freed"), Overrun |-> Overrun]

NotCalled == [Called |-> FALSE, Buffer |-> << >>, Length |-> 0]

NoTableStatus_Aborted == "EFI_ABORTED"

\* The status InstallHestAcpiTable returns when there is no table.
NoTableStatus == EFI_SUCCESS

InstallFailed_OutOfResourcesOnly(AcpiStatus) == AcpiStatus = EFI_OUT_OF_RESOURCES

\* Whether InstallHestAcpiTable keeps the buffer after InstallAcpiTable.
InstallFailed(AcpiStatus) == EFI_ERROR(AcpiStatus)

InstallHestAcpiTable(T, S, M, AcpiStatus, freed) ==
  IF T = NULL
    THEN [Status |-> NoTableStatus, HestTable |-> T, CurrentTableSize |-> S,
          TableMem |-> M, Acpi |-> NotCalled, Reused |-> FALSE]
  ELSE
  LET mem    == IF T = "Freed" THEN freed ELSE M
      Length == Read32(mem, LengthOffset)
      mem1   == Write8(mem, ChecksumOffset, CalculateCheckSum8(mem, Length))
      call   == [Called |-> TRUE, Buffer |-> mem1, Length |-> Length]
  IN
  IF InstallFailed(AcpiStatus)
    THEN [Status |-> AcpiStatus, HestTable |-> T, CurrentTableSize |-> S,
          TableMem |-> mem1, Acpi |-> call, Reused |-> (T = "Freed")]
    ELSE [Status |-> EFI_SUCCESS, HestTable |-> "Freed",
          CurrentTableSize |-> S, TableMem |-> mem1, Acpi |-> call,
          Reused |-> (T = "Freed")]

----------------------------------------------------------------------------
(* The callers' inputs and the environment's answers. *)

\* The descriptor list of n bytes a caller passes: byte i of it is 16n + i,
\* so that a byte of the table tells which list and which offset it is from.
Blob(n) == [i \in 1..n |-> 16 * n + i]

Blobs == {Blob(n) : n \in ListLengths}

DescriptorArgs ==
  {[Null |-> TRUE, Bytes |-> << >>]} \cup
  {[Null |-> FALSE, Bytes |-> b] : b \in Blobs}

AppendEnv(T, M) ==
  [hdrAlloc  : IF T = NULL THEN BOOLEAN ELSE {TRUE},
   gLength   : IF T = NULL THEN StackGarbage32 ELSE {<< 0, 0, 0, 0 >>},
   gChecksum : IF T = NULL THEN StackGarbage8 ELSE {0},
   growAlloc : BOOLEAN,
   freed     : IF T = "Freed" THEN FreedReads(M) ELSE {M}]

AcpiStatuses == {EFI_SUCCESS, EFI_OUT_OF_RESOURCES, EFI_ACCESS_DENIED}

----------------------------------------------------------------------------
(* Standalone MM: the drivers that implement                                *)
(* MM_HEST_ERROR_SOURCE_DESC_PROTOCOL and the gateway handler.              *)

HEST_ERROR_SOURCE_DESC_INFO_SIZE == 16   \* two UINTN fields before the list
MM_COMMUNICATE_HEADER_SIZE       == 24   \* HeaderGuid and MessageLength
HandleSize                       == 8    \* sizeof (EFI_HANDLE)

\* One driver behind a handle of the protocol: the status MmHandleProtocol
\* returns for its handle, what GetHestErrorSourceDescriptors returns when
\* Buffer is NULL (Probe, with Length and Count) and what it returns when
\* Buffer is valid (Fill, with Bytes copied to *Buffer on EFI_SUCCESS).
\* Length and Count are what the driver stores in its outputs, whatever
\* status it returns.
Producer(Handle, Probe, Length, Count, Fill) ==
  [Handle |-> Handle, Probe |-> Probe, Length |-> Length, Count |-> Count,
   Fill |-> Fill, Bytes |-> [i \in 1..Length |-> 32 * Length + i]]

Good1      == Producer(EFI_SUCCESS, EFI_INVALID_PARAMETER, 1, 1, EFI_SUCCESS)
Good2      == Producer(EFI_SUCCESS, EFI_INVALID_PARAMETER, 2, 2, EFI_SUCCESS)
Empty      == Producer(EFI_SUCCESS, EFI_INVALID_PARAMETER, 0, 0, EFI_SUCCESS)
FillFails  == Producer(EFI_SUCCESS, EFI_INVALID_PARAMETER, 1, 1, EFI_DEVICE_ERROR)
ProbeFails == Producer(EFI_SUCCESS, EFI_DEVICE_ERROR, 1, 1, EFI_DEVICE_ERROR)
NoProtocol == Producer(EFI_UNSUPPORTED, EFI_INVALID_PARAMETER, 1, 1, EFI_SUCCESS)
\* A driver that answers the NULL Buffer with the status UEFI services use
\* for a size query, and copies its descriptor when given a Buffer.
SizeQuery  == Producer(EFI_SUCCESS, EFI_BUFFER_TOO_SMALL, 1, 1, EFI_SUCCESS)

\* The drivers registered in MM, in the order MmLocateHandle returns them.
ProducerSets ==
  { << >>, << Good1 >>, << Empty >>, << ProbeFails >>, << Good1, Good2 >>,
    << Good2, FillFails >>, << FillFails, Good1 >>, << ProbeFails, Good2 >>,
    << NoProtocol, Good1 >>, << Good1, Good2, Empty >>, << SizeQuery >> }

\* mMmst->MmLocateHandle (ByProtocol, ..., BufferSize, Buffer)
MmLocateHandle(P, BufferSize) ==
  IF Len(P) = 0
    THEN [Status |-> EFI_NOT_FOUND, BufferSize |-> BufferSize]
    ELSE IF BufferSize < Len(P) * HandleSize
      THEN [Status |-> EFI_BUFFER_TOO_SMALL, BufferSize |-> Len(P) * HandleSize]
      ELSE [Status |-> EFI_SUCCESS, BufferSize |-> Len(P) * HandleSize]

GetHestErrorSourceProtocolHandles(P, HandleBufferSize) ==
  LET r == MmLocateHandle(P, HandleBufferSize)
  IN IF EFI_ERROR(r.Status) /\ r.Status # EFI_BUFFER_TOO_SMALL
       THEN [Status |-> EFI_NOT_FOUND, BufferSize |-> r.BufferSize]
       ELSE r

ProbeAccepted_Any(S) == TRUE

\* The status of a call with a NULL Buffer after which the handler adds
\* the length and the count the driver returned.
ProbeAccepted(S) == S = EFI_INVALID_PARAMETER

\* The first loop of the handler: the sums of the lengths and counts of
\* the drivers that answer EFI_INVALID_PARAMETER to a NULL Buffer, and the
\* number of calls made.
RECURSIVE ProbeLoop(_, _, _, _)
ProbeLoop(P, HandleCount, Index, Total) ==
  IF Index > HandleCount THEN Total
  ELSE LET p == P[Index]
       IN IF EFI_ERROR(p.Handle) THEN ProbeLoop(P, HandleCount, Index + 1, Total)
          ELSE IF ProbeAccepted(p.Probe)
            THEN ProbeLoop(P, HandleCount, Index + 1,
                           [Length |-> Total.Length + p.Length,
                            Count  |-> Total.Count + p.Count,
                            Calls  |-> Total.Calls + 1])
            ELSE ProbeLoop(P, HandleCount, Index + 1,
                           [Total EXCEPT !.Calls = @ + 1])

AdvanceCursor_Stay(Cursor, SourceLength) == Cursor

\* ErrorSourcePtr += SourceLength
AdvanceCursor(Cursor, SourceLength) == Cursor + SourceLength

\* The second loop of the handler.  St holds Status, the offset of
\* ErrorSourcePtr in ErrSourceDescList, the list and the number of calls
\* made.  What a driver copies past the end of the list is not part of
\* the CommBuffer.
RECURSIVE FillLoop(_, _, _, _)
FillLoop(P, HandleCount, Index, St) ==
  IF Index > HandleCount THEN St
  ELSE LET p == P[Index]
       IN IF EFI_ERROR(p.Handle)
            THEN FillLoop(P, HandleCount, Index + 1,
                          [St EXCEPT !.Status = p.Handle])
            ELSE IF p.Fill = EFI_SUCCESS
              THEN FillLoop(P, HandleCount, Index + 1,
                     [Status |-> EFI_SUCCESS,
                      Cursor |-> AdvanceCursor(St.Cursor, p.Length),
                      List   |-> CopyMem(St.List, St.Cursor, p.Bytes, p.Length),
                      Calls  |-> St.Calls + 1])
              ELSE FillLoop(P, HandleCount, Index + 1,
                            [St EXCEPT !.Status = p.Fill, !.Calls = @ + 1])

\* The status the handler returns when CommBuffer cannot hold the
\* descriptors.
TooSmallStatus == EFI_BUFFER_TOO_SMALL

IsTooSmallForInfo_Never(CommBufferSize) == FALSE

\* *CommBufferSize < HEST_ERROR_SOURCE_DESC_INFO_SIZE
IsTooSmallForInfo(CommBufferSize) ==
  CommBufferSize < HEST_ERROR_SOURCE_DESC_INFO_SIZE

IsTooSmall_ListOnly(CommBufferSize, TotalSourceLength) ==
  CommBufferSize < TotalSourceLength

\* *CommBufferSize < TotalSourceLength + HEST_ERROR_SOURCE_DESC_INFO_SIZE
IsTooSmall(CommBufferSize, TotalSourceLength) ==
  CommBufferSize < TotalSourceLength + HEST_ERROR_SOURCE_DESC_INFO_SIZE

ReplyAfterFill_Copied(Info, fill) ==
  [Info EXCEPT !.List = fill.List, !.Size = fill.Cursor]

\* The CommBuffer after the second loop: the count and the size stay as
\* assigned before the loop.
ReplyAfterFill(Info, fill) == [Info EXCEPT !.List = fill.List]

\* HestErrorSourcesInfoMmiHandler.  CommBuffer is a
\* HEST_ERROR_SOURCE_DESC_INFO: Count, Size and List; Wrote tells whether
\* the handler assigned Count and Size, Filled whether it ran the second
\* loop.  Located, Probed and FillCalls count the calls of MmLocateHandle
\* and the calls of the drivers with a NULL Buffer and with a Buffer;
\* Cursor is the offset of ErrorSourcePtr when the handler returns.
HestErrorSourcesInfoMmiHandler(CommBuffer, CommBufferSize, P, handleAlloc) ==
  LET Return(S, located) ==
        [Status |-> S, CommBuffer |-> CommBuffer,
         Wrote |-> FALSE, Filled |-> FALSE,
         Located |-> located, Probed |-> 0, FillCalls |-> 0, Cursor |-> 0]
      q1 == GetHestErrorSourceProtocolHandles(P, 0)
      q2 == GetHestErrorSourceProtocolHandles(P, q1.BufferSize)
      HandleCount == q2.BufferSize \div HandleSize
      Total == ProbeLoop(P, HandleCount, 1,
                         [Length |-> 0, Count |-> 0, Calls |-> 0])
      Info  == [CommBuffer EXCEPT !.Count = Total.Count, !.Size = Total.Length]
      fill  == FillLoop(P, HandleCount, 1,
                        [Status |-> q2.Status, Cursor |-> 0,
                         List |-> Info.List, Calls |-> 0])
  IN IF IsTooSmallForInfo(CommBufferSize)
       THEN Return(EFI_INVALID_PARAMETER, 0)
     ELSE IF q1.Status = EFI_NOT_FOUND \/ q1.BufferSize = 0
       THEN Return(q1.Status, 1)
     ELSE IF ~handleAlloc
       THEN Return(EFI_OUT_OF_RESOURCES, 1)
     ELSE IF EFI_ERROR(q2.Status)
       THEN Return(q2.Status, 2)
     ELSE IF IsTooSmall(CommBufferSize, Total.Length)
       THEN [Status |-> TooSmallStatus, CommBuffer |-> Info,
             Wrote |-> TRUE, Filled |-> FALSE,
             Located |-> 2, Probed |-> Total.Calls, FillCalls |-> 0,
             Cursor |-> 0]
     ELSE [Status |-> fill.Status,
           CommBuffer |-> ReplyAfterFill(Info, fill),
           Wrote |-> TRUE, Filled |-> TRUE,
           Located |-> 2, Probed |-> Total.Calls, FillCalls |-> fill.Calls,
           Cursor |-> fill.Cursor]

\* The handler has not been invoked.
NoInvocation ==
  [Producers |-> << >>, CommBufferSize |-> 0, HandleAlloc |-> TRUE,
   Before |-> [Count |-> 0, Size |-> 0, List |-> << >>],
   Status |-> "None",
   CommBuffer |-> [Count |-> 0, Size |-> 0, List |-> << >>],
   Wrote |-> FALSE, Filled |-> FALSE,
   Located |-> 0, Probed |-> 0, FillCalls |-> 0, Cursor |-> 0]

----------------------------------------------------------------------------
(* The DXE client. *)

\* What the MM_COMMUNICATE channel does with a call: it runs the handler,
\* or fails with a status of its own.
Deliver == "Deliver"
ChannelOutcomes == {Deliver, EFI_ACCESS_DENIED, EFI_BAD_BUFFER_SIZE}

\* What the Count and Size fields and the list bytes of a buffer fresh
\* from AllocatePool may hold.
UninitInfo  == {[Count |-> 0, Size |-> 0], [Count |-> 3, Size |-> 2]}
UninitBytes == {0, 175}

\* mMmCommunication2->Communicate: the handler is given the buffer past
\* the communicate header and MessageLength as its size, and its status
\* is the status of the call.
Communicate(CommBuffer, MessageLength, P, channel, handleAlloc) ==
  IF channel # Deliver
    THEN [Status |-> channel, CommBuffer |-> CommBuffer,
          Wrote |-> FALSE, Filled |-> FALSE,
          Located |-> 0, Probed |-> 0, FillCalls |-> 0, Cursor |-> 0]
    ELSE HestErrorSourcesInfoMmiHandler(CommBuffer, MessageLength, P, handleAlloc)

GetErrorSourceDescriptors(CommBuffSize, CommBuffer, P, channel, handleAlloc) ==
  Communicate(CommBuffer, CommBuffSize - MM_COMMUNICATE_HEADER_SIZE, P,
              channel, handleAlloc)

\* The statuses of the first call after which AppendMmErrorSources goes on.
FirstCallTolerated(S) == ~EFI_ERROR(S) \/ S = EFI_BAD_BUFFER_SIZE

\* The second call is tolerated only if it succeeds.
SecondCallFailed_ExceptDeviceError(S) == EFI_ERROR(S) /\ S # EFI_DEVICE_ERROR

SecondCallFailed(S) == EFI_ERROR(S)

\* The communication buffers of AppendMmErrorSources, as the sequence of
\* what is done with them: buffer b is allocated, accessed, freed.
AllocatePool(pool, b) == Append(pool, << "Alloc", b >>)

Access(pool, b) == Append(pool, << "Access", b >>)

FreePool_Leak(pool, b) == pool

FreePool(pool, b) == Append(pool, << "Free", b >>)

\* The parts of the environment a call of AppendMmErrorSources does not
\* get to.
NoFirst  == [Alloc |-> FALSE, Channel |-> Deliver, HandleAlloc |-> TRUE,
             Info |-> [Count |-> 0, Size |-> 0]]
NoSecond == [Alloc |-> FALSE, Channel |-> Deliver, HandleAlloc |-> TRUE,
             Info |-> [Count |-> 0, Size |-> 0], Byte |-> 0]

NoCall == "None"
NoCollect ==
  [Producers |-> << >>, Stage |-> NoCall, ChannelCalls |-> 0,
   FirstChannel |-> NoCall, First |-> NoCall, FirstWrote |-> FALSE,
   FirstSize |-> 0, FirstCount |-> 0, SecondBufferSize |-> 0,
   Second |-> NoCall, AppendCalled |-> FALSE,
   List |-> << >>, Size |-> 0, Count |-> 0,
   Env |-> [First |-> NoFirst, Second |-> NoSecond], Pool |-> << >>]

\* AppendMmErrorSources.  e.First and e.Second are what the two pool
\* allocations and the two channel calls do, e.Append what the pool does
\* in AppendErrorSourceDescriptors.  Stage is the statement it returns
\* from, Pool what it did with its communication buffers: the first is
\* read after the first call and freed before the second is allocated,
\* the second is read by AppendErrorSourceDescriptors and freed after.
AppendMmErrorSources(T, S, M, P, e) ==
  LET Size1 == MM_COMMUNICATE_HEADER_SIZE + HEST_ERROR_SOURCE_DESC_INFO_SIZE
      Buf1  == [Count |-> e.First.Info.Count, Size |-> e.First.Info.Size,
                List |-> << >>]
      Pool1 == Access(AllocatePool(<< >>, 1), 1)
      Pool2 == Access(Pool1, 1)
      Pool3 == FreePool(Pool2, 1)
      Pool4 == Access(AllocatePool(Pool3, 2), 2)
      Log0  == [NoCollect EXCEPT !.Producers = P,
                                 !.Env = [First |-> e.First,
                                          Second |-> e.Second]]
      Return(St, stage, log, pool) ==
        [Status |-> St, HestTable |-> T, CurrentTableSize |-> S,
         TableMem |-> M, Reused |-> FALSE, Overrun |-> FALSE,
         Log |-> [log EXCEPT !.Stage = stage, !.Pool = pool]]
      \* c2 is what the second call returned
      AfterSecondCall(Log2, c2) ==
        LET Info2 == c2.CommBuffer
            Log3  == [Log2 EXCEPT !.ChannelCalls = 2, !.Second = c2.Status]
        IN IF SecondCallFailed(c2.Status)
             THEN Return(c2.Status, "SecondCall", Log3, FreePool(Pool4, 2))
             ELSE AppendErrorSourceDescriptor(T, S, M,
                    [Null |-> FALSE, Bytes |-> Info2.List],
                    UINTN(Info2.Size), UINTN(Info2.Count), e.Append)
                  @@ [Log |-> [Log3 EXCEPT !.Stage = "Append",
                                           !.AppendCalled = TRUE,
                                           !.List = Info2.List,
                                           !.Size = Info2.Size,
                                           !.Count = Info2.Count,
                                           !.Pool = FreePool(Access(Pool4, 2), 2)]]
      \* c1 is what the first call returned
      AfterFirstCall(c1) ==
        LET Info1 == c1.CommBuffer
            Size2 == MM_COMMUNICATE_HEADER_SIZE
                       + HEST_ERROR_SOURCE_DESC_INFO_SIZE + Info1.Size
            Buf2  == [Count |-> e.Second.Info.Count,
                      Size |-> e.Second.Info.Size,
                      List |-> [i \in 1..Info1.Size |-> e.Second.Byte]]
            Log1  == [Log0 EXCEPT !.ChannelCalls = 1,
                                  !.FirstChannel = e.First.Channel,
                                  !.First = c1.Status,
                                  !.FirstWrote = c1.Wrote,
                                  !.FirstSize = Info1.Size,
                                  !.FirstCount = Info1.Count,
                                  !.Size = Info1.Size, !.Count = Info1.Count]
            Log2  == [Log1 EXCEPT !.SecondBufferSize = Size2]
        IN IF ~FirstCallTolerated(c1.Status)
             THEN Return(c1.Status, "FirstCall", Log1, FreePool(Pool1, 1))
           ELSE IF Info1.Size = 0 \/ Info1.Count = 0
             THEN Return(EFI_SUCCESS, "NothingFound", Log1, FreePool(Pool2, 1))
           ELSE IF ~e.Second.Alloc
             THEN Return(EFI_OUT_OF_RESOURCES, "SecondAllocate", Log2, Pool3)
           ELSE CHOOSE r \in
                  {AfterSecondCall(Log2, c2) :
                     c2 \in {GetErrorSourceDescriptors(Size2, Buf2, P,
                               e.Second.Channel, e.Second.HandleAlloc)}} : TRUE
  IN IF ~e.First.Alloc
       THEN Return(EFI_OUT_OF_RESOURCES, "FirstAllocate", Log0, << >>)
       ELSE CHOOSE r \in
              {AfterFirstCall(c1) :
                 c1 \in {GetErrorSourceDescriptors(Size1, Buf1, P,
                           e.First.Channel, e.First.HandleAlloc)}} : TRUE

----------------------------------------------------------------------------
(* The state machine.  Accessing a freed pool buffer is undefined            *)
(* behaviour: the call that does it takes any of the outcomes FreedReads    *)
(* allows, usedAfterFree records it, and the model follows the driver no    *)
(* further.                                                                 *)

Init ==
  /\ HestTable = NULL
  /\ CurrentTableSize = 0
  /\ TableMem = << >>
  /\ op = "None"
  /\ Status = EFI_SUCCESS
  /\ acpi = NotCalled
  /\ sumLens = 0
  /\ sumCounts = 0
  /\ appended = << >>
  /\ onlySuccessfulAppends = TRUE
  /\ usedAfterFree = FALSE
  /\ publishFailed = FALSE
  /\ overrun = FALSE
  /\ collected = FALSE
  /\ mm = NoCollect
  /\ mmi = NoInvocation
  /\ calls = 0

\* The calls of AppendErrorSourceDescriptor the model makes in a state:
\* the list is absent or holds at least ListSize bytes, and the table
\* stays within MaxDescBytes descriptor bytes.
AppendArgs ==
  {a \in [List : DescriptorArgs, ListSize : ListSizes, Count : Counts] :
     /\ ~a.List.Null => a.ListSize <= Len(a.List.Bytes)
     /\ Len(TableMem) + a.ListSize <= HeaderSize + MaxDescBytes}

\* One call of the AppendErrorSourceDescriptors protocol service with
\* arguments a, the environment answering e.
AppendStep(a, e) ==
  /\ ~usedAfterFree /\ ~overrun
  /\ calls < MaxCalls
  /\ calls' = calls + 1
  /\ \E r \in {AppendErrorSourceDescriptor(HestTable, CurrentTableSize, TableMem,
                                           a.List, UINTN(a.ListSize),
                                           UINTN(a.Count), e)} :
     LET ok == onlySuccessfulAppends /\ r.Status = EFI_SUCCESS
     IN /\ HestTable' = r.HestTable
        /\ CurrentTableSize' = r.CurrentTableSize
        /\ TableMem' = r.TableMem
        /\ op' = "Append"
        /\ Status' = r.Status
        /\ acpi' = NotCalled
        /\ onlySuccessfulAppends' = ok
        /\ sumLens' = IF ok THEN sumLens + a.ListSize ELSE 0
        /\ sumCounts' = IF ok THEN sumCounts + a.Count ELSE 0
        /\ appended' = IF ok THEN appended \o SubSeq(a.List.Bytes, 1, a.ListSize)
                            ELSE << >>
        /\ usedAfterFree' = (usedAfterFree \/ r.Reused)
        /\ publishFailed' = (publishFailed /\ r.HestTable = "Live")
        /\ overrun' = (overrun \/ r.Overrun)
        /\ UNCHANGED collected
        /\ mm' = NoCollect
        /\ UNCHANGED mmi

CallAppend ==
  \E a \in AppendArgs, e \in AppendEnv(HestTable, TableMem) : AppendStep(a, e)

InstallEnv(T, M) ==
  [AcpiStatus : AcpiStatuses,
   freed      : IF T = "Freed" THEN FreedReads(M) ELSE {M}]

\* One call of the InstallHestTable protocol service, InstallAcpiTable
\* answering e.AcpiStatus.
InstallStep(e) ==
  /\ ~usedAfterFree /\ ~overrun
  /\ calls < MaxCalls
  /\ calls' = calls + 1
  /\ \E r \in {InstallHestAcpiTable(HestTable, CurrentTableSize, TableMem,
                                    e.AcpiStatus, e.freed)} :
     LET ok == onlySuccessfulAppends /\ r.HestTable # "Freed"
     IN /\ HestTable' = r.HestTable
        /\ CurrentTableSize' = r.CurrentTableSize
        /\ TableMem' = r.TableMem
        /\ op' = "Install"
        /\ Status' = r.Status
        /\ acpi' = r.Acpi
        /\ onlySuccessfulAppends' = ok
        /\ sumLens' = IF ok THEN sumLens ELSE 0
        /\ sumCounts' = IF ok THEN sumCounts ELSE 0
        /\ appended' = IF ok THEN appended ELSE << >>
        /\ usedAfterFree' = (usedAfterFree \/ r.Reused)
        /\ publishFailed' = IF r.Acpi.Called THEN EFI_ERROR(r.Status)
                                              ELSE publishFailed
        /\ UNCHANGED overrun
        /\ UNCHANGED collected
        /\ mm' = NoCollect
        /\ UNCHANGED mmi

CallInstall == \E e \in InstallEnv(HestTable, TableMem) : InstallStep(e)

\* What the pools and the channel may do during AppendMmErrorSources; the
\* parts a call does not get to are fixed (NoFirst, NoSecond, NoAppendEnv),
\* and so is what the Count and Size fields of the second buffer hold,
\* which are never read before the handler has assigned them.
NoAppendEnv(M) ==
  [hdrAlloc |-> TRUE, gLength |-> << 0, 0, 0, 0 >>, gChecksum |-> 0,
   growAlloc |-> TRUE, freed |-> M]

FirstEnv(P) ==
  {NoFirst} \cup
  [Alloc : {TRUE}, Channel : ChannelOutcomes \ {Deliver},
   HandleAlloc : {TRUE}, Info : UninitInfo] \cup
  [Alloc : {TRUE}, Channel : {Deliver},
   HandleAlloc : IF Len(P) = 0 THEN {TRUE} ELSE BOOLEAN, Info : UninitInfo]

SecondEnv(P) ==
  {NoSecond} \cup
  [Alloc : {TRUE}, Channel : ChannelOutcomes \ {Deliver},
   HandleAlloc : {TRUE}, Info : {[Count |-> 0, Size |-> 0]}, Byte : {0}] \cup
  [Alloc : {TRUE}, Channel : {Deliver},
   HandleAlloc : IF Len(P) = 0 THEN {TRUE} ELSE BOOLEAN,
   Info : {[Count |-> 0, Size |-> 0]}, Byte : UninitBytes]

\* The stages AppendMmErrorSources reaches with the first part of e.
ReachesSecond(T, S, M, P, f) ==
  AppendMmErrorSources(T, S, M, P,
     [First |-> f, Second |-> NoSecond, Append |-> NoAppendEnv(M)]).Log.Stage
    = "SecondAllocate"

ReachesAppend(T, S, M, P, f, g) ==
  AppendMmErrorSources(T, S, M, P,
     [First |-> f, Second |-> g, Append |-> NoAppendEnv(M)]).Log.Stage
    = "Append"

CollectStep(P, e) ==
  /\ ~usedAfterFree /\ ~overrun
  /\ ~collected
  /\ calls < MaxMmCalls
  /\ calls' = calls + 1
  /\ \E r \in {AppendMmErrorSources(HestTable, CurrentTableSize, TableMem,
                                    P, e)} :
     LET ok == onlySuccessfulAppends
                 /\ (r.Log.AppendCalled => r.Status = EFI_SUCCESS)
         did == ok /\ r.Log.AppendCalled
     IN /\ HestTable' = r.HestTable
        /\ CurrentTableSize' = r.CurrentTableSize
        /\ TableMem' = r.TableMem
        /\ op' = "Collect"
        /\ Status' = r.Status
        /\ acpi' = NotCalled
        /\ onlySuccessfulAppends' = ok
        /\ sumLens' = IF did THEN sumLens + r.Log.Size
                      ELSE IF ok THEN sumLens ELSE 0
        /\ sumCounts' = IF did THEN sumCounts + r.Log.Count
                        ELSE IF ok THEN sumCounts ELSE 0
        /\ appended' = IF did THEN appended \o SubSeq(r.Log.List, 1, r.Log.Size)
                       ELSE IF ok THEN appended ELSE << >>
        /\ usedAfterFree' = (usedAfterFree \/ r.Reused)
        /\ publishFailed' = (publishFailed /\ r.HestTable = "Live")
        /\ overrun' = (overrun \/ r.Overrun)
        /\ collected' = TRUE
        /\ mm' = r.Log
        /\ UNCHANGED mmi

CallCollect ==
  \E P \in ProducerSets : \E f \in FirstEnv(P) :
    \E g \in IF ReachesSecond(HestTable, CurrentTableSize, TableMem, P, f)
               THEN SecondEnv(P) ELSE {NoSecond} :
      \E ae \in IF ReachesAppend(HestTable, CurrentTableSize, TableMem, P, f, g)
                  THEN AppendEnv(HestTable, TableMem)
                  ELSE {NoAppendEnv(TableMem)} :
        CollectStep(P, [First |-> f, Second |-> g, Append |-> ae])

Next == CallAppend \/ CallInstall

Spec == Init /\ [][Next]_vars

\* The sizes of the CommBuffers the handler is invoked with, and what such
\* a buffer holds: bytes past the two fields only if it is large enough.
CommBufferSizes == {8, 16, 17, 18, 19, 20}

CommBuffers(CommBufferSize) ==
  {[Count |-> i.Count, Size |-> i.Size,
    List |-> [k \in 1..(IF CommBufferSize > HEST_ERROR_SOURCE_DESC_INFO_SIZE
                          THEN CommBufferSize - HEST_ERROR_SOURCE_DESC_INFO_SIZE
                          ELSE 0) |-> b]] :
     i \in UninitInfo, b \in UninitBytes}

\* One invocation of the handler through the MMI dispatcher.
HandlerStep(P, CommBufferSize, CommBuffer, handleAlloc) ==
  /\ calls < MaxMmCalls
  /\ calls' = calls + 1
  /\ \E r \in {HestErrorSourcesInfoMmiHandler(CommBuffer, CommBufferSize, P,
                                             handleAlloc)} :
       /\ op' = "Handler"
       /\ Status' = r.Status
       /\ mmi' = [Producers |-> P, CommBufferSize |-> CommBufferSize,
                  HandleAlloc |-> handleAlloc, Before |-> CommBuffer,
                  Status |-> r.Status, CommBuffer |-> r.CommBuffer,
                  Wrote |-> r.Wrote, Filled |-> r.Filled,
                  Located |-> r.Located, Probed |-> r.Probed,
                  FillCalls |-> r.FillCalls, Cursor |-> r.Cursor]
       /\ UNCHANGED <<HestTable, CurrentTableSize, TableMem, acpi, sumLens,
                      sumCounts, appended, onlySuccessfulAppends,
                      usedAfterFree, publishFailed, overrun, collected, mm>>

CallHandler ==
  \E P \in ProducerSets, CommBufferSize \in CommBufferSizes :
    \E CommBuffer \in CommBuffers(CommBufferSize), handleAlloc \in BOOLEAN :
      HandlerStep(P, CommBufferSize, CommBuffer, handleAlloc)

NextMmi == CallHandler

SpecMmi == Init /\ [][NextMmi]_vars

\* Lists of about 4 GiB: 2^32 - 1, 2^32 and 2^32 + 1 as UINTN.
TwoTo32Minus1 == << 65535, 65535, 0, 0 >>
TwoTo32       == << 0, 0, 1, 0 >>
TwoTo32Plus1  == << 1, 0, 1, 0 >>

WideSizes == {UINTN(1), TwoTo32Minus1, TwoTo32, TwoTo32Plus1}

\* The calls of AppendErrorSourceDescriptor with such sizes and counts;
\* List.Bytes holds the first bytes of the list.
WideAppendArgs ==
  {a \in [List : DescriptorArgs, ListSize : WideSizes, Count : WideSizes] :
     ~a.List.Null /\ (a.ListSize = UINTN(1) => a.Count # UINTN(1))}

\* One call of the AppendErrorSourceDescriptors protocol service with a
\* size or a count of 2^32 or about.  Writing past the end of the table
\* buffer is undefined behaviour: overrun records it and the model follows
\* the driver no further.
WideAppendStep(a, e) ==
  /\ ~usedAfterFree /\ ~overrun
  /\ calls < MaxWideCalls
  /\ calls' = calls + 1
  /\ \E r \in {AppendErrorSourceDescriptor(HestTable, CurrentTableSize, TableMem,
                                           a.List, a.ListSize, a.Count, e)} :
        /\ HestTable' = r.HestTable
        /\ CurrentTableSize' = r.CurrentTableSize
        /\ TableMem' = r.TableMem
        /\ op' = "Append"
        /\ Status' = r.Status
        /\ acpi' = NotCalled
        /\ onlySuccessfulAppends' = FALSE
        /\ sumLens' = 0
        /\ sumCounts' = 0
        /\ appended' = << >>
        /\ usedAfterFree' = (usedAfterFree \/ r.Reused)
        /\ publishFailed' = (publishFailed /\ r.HestTable = "Live")
        /\ overrun' = (overrun \/ r.Overrun)
        /\ UNCHANGED collected
        /\ mm' = NoCollect
        /\ UNCHANGED mmi

CallWideAppend ==
  \E a \in WideAppendArgs, e \in AppendEnv(HestTable, TableMem) :
    WideAppendStep(a, e)

NextWide == CallWideAppend

SpecWide == Init /\ [][NextWide]_vars

\* The protocol services as called next to the DXE client, by drivers
\* that append whole lists of three descriptors.
MmAppendArgs ==
  {a \in AppendArgs :
     ~a.List.Null /\ a.ListSize = Len(a.List.Bytes) /\ a.Count = 3}

MmAppend ==
  /\ calls < MaxMmCalls
  /\ \E a \in MmAppendArgs, e \in AppendEnv(HestTable, TableMem) :
        AppendStep(a, e)

MmInstall == calls < MaxMmCalls /\ CallInstall

NextMm == CallCollect \/ MmAppend \/ MmInstall

SpecMm == Init /\ [][NextMm]_vars

----------------------------------------------------------------------------
(* Properties of the table aggregator. *)

Length32(Mem)     == Read32(Mem, LengthOffset)
ErrorCount32(Mem) == Read32(Mem, ErrorCountOffset)
Descriptors(Mem)  == SubSeq(Mem, HeaderSize + 1, Len(Mem))

\* Offsets (from 1) of the header's Length and ErrorSourceCount fields.
LengthAndCountBytes ==
  (LengthOffset + 1 .. LengthOffset + 4) \cup
  (ErrorCountOffset + 1 .. ErrorCountOffset + 4)

C2_FailedGrowthKeepsTable ==
  [][(/\ HestTable = "Live" /\ CurrentTableSize > HeaderSize
      /\ op' = "Append" /\ Status' = EFI_OUT_OF_RESOURCES)
     => /\ HestTable' = "Live"
        /\ CurrentTableSize' = CurrentTableSize
        /\ TableMem' = TableMem]_vars

\* C3: an append with an absent list or a size of zero returns
\* EFI_INVALID_PARAMETER and leaves the driver data as it was.
C3_InvalidArgumentsRejected ==
  [][\A a \in AppendArgs, e \in AppendEnv(HestTable, TableMem) :
       ((a.List.Null \/ a.ListSize = 0) /\ op' = "Append" /\ AppendStep(a, e))
       => /\ Status' = EFI_INVALID_PARAMETER
          /\ UNCHANGED <<HestTable, CurrentTableSize, TableMem>>]_vars

C3_Witness ==
  /\ op = "Append" /\ Status = EFI_INVALID_PARAMETER
  /\ HestTable = "Live" /\ CurrentTableSize > HeaderSize

\* C4: a successful append on a table that is absent or live grows it by
\* ListSize bytes, puts the list's bytes at the old end of the table and
\* leaves every other byte but those of Length and ErrorSourceCount as it
\* was; the descriptor region is the lists appended, in call order.
C4_AppendPreservesAndPlaces ==
  [][\A a \in AppendArgs, e \in AppendEnv(HestTable, TableMem) :
       (HestTable # "Freed" /\ Status' = EFI_SUCCESS /\ AppendStep(a, e))
       => LET old == IF HestTable = NULL THEN HeaderSize ELSE CurrentTableSize
          IN /\ CurrentTableSize' = old + a.ListSize
             /\ Len(TableMem') = old + a.ListSize
             /\ \A i \in 1..a.ListSize : TableMem'[old + i] = a.List.Bytes[i]
             /\ HestTable = "Live" =>
                  \A i \in (1..old) \ LengthAndCountBytes :
                     TableMem'[i] = TableMem[i]
             /\ onlySuccessfulAppends' => Descriptors(TableMem') = appended']_vars

C4_Witness ==
  /\ op = "Append" /\ Status = EFI_SUCCESS /\ onlySuccessfulAppends
  /\ Len(appended) = 3 /\ Descriptors(TableMem) = appended

\* C5: every buffer handed to InstallAcpiTable sums to zero modulo 256 over
\* its header Length.
C5_PublishedChecksumValid ==
  acpi.Called => CalculateSum8(acpi.Buffer, acpi.Length) = 0

C7_FailedPublishChangesNothing ==
  [][\A e \in InstallEnv(HestTable, TableMem) :
       (HestTable = "Live" /\ EFI_ERROR(e.AcpiStatus) /\ InstallStep(e))
       => /\ Status' = e.AcpiStatus
          /\ HestTable' = "Live"
          /\ CurrentTableSize' = CurrentTableSize
          /\ TableMem' = TableMem]_vars

\* C7 as amended: when InstallAcpiTable fails, InstallHestTable returns that
\* status and the table buffer is kept with the same size and the same
\* bytes but for the header's Checksum byte, which holds the new checksum.
C7_FailedPublishKeepsAllButChecksum ==
  [][\A e \in InstallEnv(HestTable, TableMem) :
       (HestTable = "Live" /\ EFI_ERROR(e.AcpiStatus) /\ InstallStep(e))
       => /\ Status' = e.AcpiStatus
          /\ HestTable' = "Live"
          /\ CurrentTableSize' = CurrentTableSize
          /\ Len(TableMem') = Len(TableMem)
          /\ \A i \in (1..Len(TableMem)) \ {ChecksumOffset + 1} :
                TableMem'[i] = TableMem[i]
          /\ acpi'.Called]_vars

C7_Witness ==
  /\ op = "Install" /\ acpi.Called /\ Status = EFI_ACCESS_DENIED
  /\ HestTable = "Live" /\ CurrentTableSize > HeaderSize

\* C8: once the table has been published and its buffer freed, no later
\* call reads, writes, reallocates, frees or publishes that buffer.
C8_ReleasedBufferNeverReused == ~usedAfterFree

\* C9: while the table is not published it only grows: it stays in place,
\* its Length and ErrorSourceCount do not decrease and the descriptors it
\* holds stay where they are.
C9_TableOnlyGrows ==
  [][(HestTable = "Live" /\ HestTable' # "Freed")
     => /\ HestTable' = "Live"
        /\ Len(TableMem') >= Len(TableMem)
        /\ Length32(TableMem') >= Length32(TableMem)
        /\ ErrorCount32(TableMem') >= ErrorCount32(TableMem)
        /\ SubSeq(TableMem', HeaderSize + 1, Len(TableMem))
             = Descriptors(TableMem)]_vars

----------------------------------------------------------------------------
(* Properties of the DXE client. *)

\* C10: when the handler answers the first call with the status it uses
\* for a CommBuffer that is too small, AppendMmErrorSources does not return
\* at the first call; after a failure of the first call that is not a
\* buffer size status it returns that status.
C10_ProbeTooSmallTolerated ==
  (op = "Collect" /\ mm.ChannelCalls >= 1 /\ EFI_ERROR(mm.First)) =>
     /\ (mm.FirstChannel = Deliver /\ mm.First = EFI_BUFFER_TOO_SMALL)
           => mm.Stage # "FirstCall"
     /\ mm.First \notin {EFI_BUFFER_TOO_SMALL, EFI_BAD_BUFFER_SIZE}
           => (mm.Stage = "FirstCall" /\ Status = mm.First)

----------------------------------------------------------------------------
(* Properties of the MM gateway handler. *)

\* What the drivers of P declare: the length and the count of those that
\* are reached through their handle and answer EFI_INVALID_PARAMETER to a
\* NULL Buffer, summed.
RECURSIVE DeclaredLength(_)
DeclaredLength(P) ==
  IF P = << >> THEN 0
  ELSE (IF Head(P).Handle = EFI_SUCCESS /\ Head(P).Probe = EFI_INVALID_PARAMETER
          THEN Head(P).Length ELSE 0) + DeclaredLength(Tail(P))

RECURSIVE DeclaredCount(_)
DeclaredCount(P) ==
  IF P = << >> THEN 0
  ELSE (IF Head(P).Handle = EFI_SUCCESS /\ Head(P).Probe = EFI_INVALID_PARAMETER
          THEN Head(P).Count ELSE 0) + DeclaredCount(Tail(P))

\* The bytes of the drivers of P that copy their descriptors when called
\* with a valid Buffer, in the order of P.
RECURSIVE CopiedBytes(_)
CopiedBytes(P) ==
  IF P = << >> THEN << >>
  ELSE (IF Head(P).Handle = EFI_SUCCESS /\ Head(P).Fill = EFI_SUCCESS
          THEN Head(P).Bytes ELSE << >>) \o CopiedBytes(Tail(P))

\* The handler got to its loops: the CommBuffer holds the two fields,
\* drivers are registered and the handle buffer was allocated.
HandlerQueried ==
  /\ op = "Handler"
  /\ mmi.CommBufferSize >= HEST_ERROR_SOURCE_DESC_INFO_SIZE
  /\ Len(mmi.Producers) > 0
  /\ mmi.HandleAlloc

\* C11: for drivers that declare a total length L, the handler returns
\* EFI_BUFFER_TOO_SMALL when the CommBuffer is smaller than the two fields
\* plus L, and EFI_SUCCESS otherwise.
C11_TooSmallExactlyBelowDeclared ==
  HandlerQueried =>
    IF mmi.CommBufferSize
         < HEST_ERROR_SOURCE_DESC_INFO_SIZE + DeclaredLength(mmi.Producers)
      THEN Status = EFI_BUFFER_TOO_SMALL
      ELSE Status = EFI_SUCCESS

\* C12: the count and the size the handler stores in the CommBuffer are
\* the sums over the drivers that answered EFI_INVALID_PARAMETER to the
\* NULL Buffer; a driver that answers otherwise adds nothing and does not
\* keep the handler from storing the sums.
C12_TotalsAreDeclaredSums ==
  HandlerQueried =>
    /\ mmi.Wrote
    /\ mmi.CommBuffer.Count = DeclaredCount(mmi.Producers)
    /\ mmi.CommBuffer.Size = DeclaredLength(mmi.Producers)

C12_Witness ==
  /\ op = "Handler" /\ mmi.Wrote
  /\ mmi.Producers = << ProbeFails, Good2 >>
  /\ mmi.CommBuffer.Count = 2 /\ mmi.CommBuffer.Size = 2

\* C13: after the second loop the list of the CommBuffer starts with the
\* bytes of the drivers that returned EFI_SUCCESS, each right after those
\* of the drivers that succeeded before it, and holds what it held before
\* everywhere else.
C13_FillInOrderAtCursor ==
  (op = "Handler" /\ mmi.Filled) =>
    LET copied == CopiedBytes(mmi.Producers)
        List   == mmi.CommBuffer.List
    IN /\ Len(List) = Len(mmi.Before.List)
       /\ \A i \in 1..Len(List) :
            List[i] = IF i <= Len(copied) THEN copied[i] ELSE mmi.Before.List[i]

C13_Witness ==
  /\ op = "Handler" /\ mmi.Filled
  /\ mmi.Producers = << Good1, Good2, Empty >>
  /\ SubSeq(mmi.CommBuffer.List, 1, 3) = Good1.Bytes \o Good2.Bytes

\* C14: when a driver fails in the second loop while the CommBuffer is
\* large enough and other drivers copy their descriptors, the handler still
\* returns EFI_SUCCESS.
C14_FillFailureNotReported ==
  (op = "Handler" /\ mmi.Filled /\ Len(CopiedBytes(mmi.Producers)) > 0)
    => Status = EFI_SUCCESS

\* C15: a driver that declared its size and fails in the second loop does
\* not lower the count and the size of the CommBuffer: after the second
\* loop they are the sums declared in the first.
C15_FillKeepsDeclaredTotals ==
  (op = "Handler" /\ mmi.Filled) =>
    /\ mmi.CommBuffer.Count = DeclaredCount(mmi.Producers)
    /\ mmi.CommBuffer.Size = DeclaredLength(mmi.Producers)

C15_Witness ==
  /\ op = "Handler" /\ mmi.Filled
  /\ mmi.Producers = << FillFails, Good1 >>
  /\ mmi.CommBuffer.Count = 2 /\ mmi.CommBuffer.Size = 2
  /\ SubSeq(mmi.CommBuffer.List, 1, 1) = Good1.Bytes

----------------------------------------------------------------------------
(* Properties of the DXE client calling the handler. *)

\* AppendMmErrorSources got its first buffer and the first call ran the
\* handler, which got to its loops.
FirstCallQueried ==
  /\ op = "Collect"
  /\ mm.Env.First.Alloc
  /\ mm.Env.First.Channel = Deliver
  /\ mm.Env.First.HandleAlloc

\* C16: when no driver is registered, the handler stores a count and a
\* size of 0 and returns no error, and AppendMmErrorSources returns
\* EFI_SUCCESS without a second call and without appending.
C16_NoProducersIsSuccess ==
  (FirstCallQueried /\ mm.Producers = << >>) =>
    /\ ~EFI_ERROR(mm.First)
    /\ mm.FirstWrote /\ mm.FirstCount = 0 /\ mm.FirstSize = 0
    /\ Status = EFI_SUCCESS
    /\ mm.ChannelCalls = 1 /\ ~mm.AppendCalled

\* C17: when the handler has stored a count or a size of 0 in the first
\* call, AppendMmErrorSources returns EFI_SUCCESS, makes no second call and
\* does not append, whatever the drivers returned.
C17_NothingDeclaredIsSuccess ==
  (/\ FirstCallQueried
   /\ mm.FirstWrote
   /\ mm.FirstCount = 0 \/ mm.FirstSize = 0) =>
    /\ Status = EFI_SUCCESS
    /\ mm.ChannelCalls = 1
    /\ ~mm.AppendCalled

\* C18: when the second call fails, with whatever status,
\* AppendMmErrorSources returns that status, does not call
\* AppendErrorSourceDescriptors and leaves the table as it was.
C18_SecondFailureReturnedTableKept ==
  [][(op' = "Collect" /\ mm'.ChannelCalls = 2 /\ EFI_ERROR(mm'.Second))
     => /\ Status' = mm'.Second
        /\ mm'.Stage = "SecondCall"
        /\ ~mm'.AppendCalled
        /\ UNCHANGED << HestTable, CurrentTableSize, TableMem >>]_vars

C18_Witness ==
  /\ op = "Collect" /\ mm.Stage = "SecondCall"
  /\ mm.Env.Second.Channel = Deliver
  /\ mm.Second = EFI_BUFFER_TOO_SMALL /\ Status = EFI_BUFFER_TOO_SMALL
  /\ HestTable = "Live" /\ ErrorCount32(TableMem) = 3

\* Every driver of P is reached through its handle, declares its size and
\* copies its descriptors.
AllSucceed(P) ==
  \A i \in DOMAIN P :
    /\ P[i].Handle = EFI_SUCCESS
    /\ P[i].Probe = EFI_INVALID_PARAMETER
    /\ P[i].Fill = EFI_SUCCESS

\* C19: with drivers that all succeed and declare a count C > 0 and a
\* length L > 0, AppendMmErrorSources goes on after the first call and
\* allocates a second buffer of the communicate header, the two fields and
\* L bytes; if the second call runs the handler too, it succeeds and
\* AppendErrorSourceDescriptors is called with the bytes of the drivers, L
\* and C, and its status is returned.
C19_NegotiationConverges ==
  (/\ FirstCallQueried
   /\ AllSucceed(mm.Producers)
   /\ DeclaredCount(mm.Producers) > 0
   /\ DeclaredLength(mm.Producers) > 0) =>
    /\ mm.Stage \in {"SecondAllocate", "SecondCall", "Append"}
    /\ mm.SecondBufferSize
         = MM_COMMUNICATE_HEADER_SIZE + HEST_ERROR_SOURCE_DESC_INFO_SIZE
             + DeclaredLength(mm.Producers)
    /\ (/\ mm.Env.Second.Alloc
        /\ mm.Env.Second.Channel = Deliver
        /\ mm.Env.Second.HandleAlloc)
         => /\ mm.Second = EFI_SUCCESS
            /\ mm.AppendCalled
            /\ mm.Size = DeclaredLength(mm.Producers)
            /\ mm.Count = DeclaredCount(mm.Producers)
            /\ SubSeq(mm.List, 1, mm.Size) = CopiedBytes(mm.Producers)

\* What was done with buffer b in pool, as the positions in pool.
PoolEvents(pool, what, b) ==
  {i \in DOMAIN pool : pool[i] = << what, b >>}

\* C20: AppendMmErrorSources frees each communication buffer it allocated
\* once before it returns, does not access a buffer before it is allocated
\* or after it is freed, and allocates a buffer only when the one before
\* has been freed.
C20_BuffersFreedOnce ==
  op = "Collect" =>
    \A b \in {1, 2} :
      LET allocs == PoolEvents(mm.Pool, "Alloc", b)
          frees  == PoolEvents(mm.Pool, "Free", b)
          uses   == PoolEvents(mm.Pool, "Access", b)
      IN /\ Cardinality(allocs) <= 1
         /\ Cardinality(frees) = Cardinality(allocs)
         /\ allocs = {} => uses = {}
         /\ \A a \in allocs, f \in frees :
              /\ a < f
              /\ \A u \in uses : a < u /\ u < f
              /\ \A c \in {1, 2} \ {b} :
                   \A x \in PoolEvents(mm.Pool, "Alloc", c)
                            \cup PoolEvents(mm.Pool, "Access", c)
                            \cup PoolEvents(mm.Pool, "Free", c) :
                     x < a \/ f < x

C20_Witness ==
  /\ op = "Collect" /\ mm.Stage = "Append" /\ EFI_ERROR(Status)
  /\ PoolEvents(mm.Pool, "Free", 1) # {}
  /\ PoolEvents(mm.Pool, "Free", 2) # {}

----------------------------------------------------------------------------
(* Further properties of the table aggregator. *)

\* C21: InstallHestTable called while there is no table returns
\* EFI_ABORTED.
C21_NoTableAborted ==
  [][\A e \in InstallEnv(HestTable, TableMem) :
       (HestTable = NULL /\ InstallStep(e)) => Status' = EFI_ABORTED]_vars

\* C22: when InstallAcpiTable has failed for the table and InstallHestTable
\* is called again, after further appends or not, the buffer it hands to
\* InstallAcpiTable sums to 0 modulo 256 over its header Length.
C22_RetryChecksumValid ==
  [][\A e \in InstallEnv(HestTable, TableMem) :
       (publishFailed /\ HestTable = "Live" /\ InstallStep(e))
       => CalculateSum8(acpi'.Buffer, acpi'.Length) = 0]_vars

\* C28: an append that succeeds copies no more bytes than the buffer has
\* grown by, and stores as Length the size before plus the size of the
\* list and as ErrorSourceCount the count before plus the count passed,
\* as numbers and not modulo 2^32.
C28_NoWrapInSizeAndCount ==
  [][\A a \in WideAppendArgs, e \in AppendEnv(HestTable, TableMem) :
       (WideAppendStep(a, e) /\ Status' = EFI_SUCCESS)
       => LET old   == IF HestTable = NULL THEN HeaderSize
                                           ELSE CurrentTableSize
              count == IF HestTable = NULL THEN 0
                                           ELSE ErrorCount32(TableMem)
              grown == IF CurrentTableSize' > old
                         THEN CurrentTableSize' - old ELSE 0
          IN /\ UintnLeq(a.ListSize, UINTN(grown))
             /\ UINTN(Length32(TableMem'))
                  = UintnAdd(UINTN(old), a.ListSize)
             /\ UINTN(ErrorCount32(TableMem'))
                  = UintnAdd(UINTN(count), a.Count)]_vars

\* C26: while the driver holds a table it has not published, the header
\* Length equals CurrentTableSize, which is at least the size of the header
\* and is the size of the buffer; so InstallHestTable hands the publishing
\* interface a length that is the size of the buffer.
C26_LengthIsCurrentSize ==
  /\ (HestTable = "Live" /\ ~usedAfterFree)
       => /\ Length32(TableMem) = CurrentTableSize
          /\ CurrentTableSize >= HeaderSize
          /\ Len(TableMem) = CurrentTableSize
  /\ (op = "Install" /\ acpi.Called /\ ~usedAfterFree)
       => /\ acpi.Length = Len(acpi.Buffer)
          /\ acpi.Length = CurrentTableSize

C26_Witness ==
  /\ op = "Install" /\ acpi.Called /\ EFI_ERROR(Status)
  /\ HestTable = "Live" /\ ~usedAfterFree
  /\ CurrentTableSize = 43 /\ Length32(TableMem) = 43 /\ acpi.Length = 43

----------------------------------------------------------------------------
(* Further properties of the MM gateway handler. *)

C24_NoRoomForFieldsRejected ==
  (op = "Handler" /\ mmi.CommBufferSize < HEST_ERROR_SOURCE_DESC_INFO_SIZE) =>
    /\ Status = EFI_INVALID_PARAMETER
    /\ mmi.Located = 0 /\ mmi.Probed = 0 /\ mmi.FillCalls = 0
    /\ ~mmi.Wrote
    /\ mmi.CommBuffer = mmi.Before

C24_Witness ==
  /\ op = "Handler" /\ mmi.CommBufferSize = 8
  /\ mmi.Producers = << Good1, Good2 >>
  /\ mmi.Before.Count = 3
  /\ Status = EFI_INVALID_PARAMETER /\ mmi.CommBuffer.Count = 3

\* C27: with drivers that store the same length whether called with a NULL
\* Buffer or with a Buffer, the offset of ErrorSourcePtr after the second
\* loop is at most the declared length, and so at most the size of the
\* CommBuffer less the two fields.
C27_CursorWithinList ==
  (op = "Handler" /\ mmi.Filled) =>
    /\ mmi.Cursor <= DeclaredLength(mmi.Producers)
    /\ mmi.Cursor <= mmi.CommBufferSize - HEST_ERROR_SOURCE_DESC_INFO_SIZE

----------------------------------------------------------------------------
(* Further properties of the DXE client calling the handler. *)

\* C25: each of the ErrSourceDescSize bytes AppendMmErrorSources passes to
\* AppendErrorSourceDescriptors was copied there by a driver in the second
\* loop of the second call.
C25_AppendedBytesFromProducers ==
  (op = "Collect" /\ mm.AppendCalled) =>
    LET copied == CopiedBytes(mm.Producers)
    IN \A i \in 1..mm.Size : i <= Len(copied) /\ mm.List[i] = copied[i]

\* C29: one call of AppendMmErrorSources makes at most two channel calls,
\* the second with a buffer sized from what the first one returned, and
\* calls AppendErrorSourceDescriptors at most once and only after a second
\* call that succeeded: a successful call grows the table by the one list
\* it was given.  When it returns before that call the table is as it was.
C29_TwoCallsOneAppend ==
  [][op' = "Collect" =>
       /\ mm'.ChannelCalls <= 2
       /\ mm'.ChannelCalls = 2 =>
            /\ mm'.First # NoCall
            /\ mm'.SecondBufferSize =
                 MM_COMMUNICATE_HEADER_SIZE + HEST_ERROR_SOURCE_DESC_INFO_SIZE
                   + mm'.FirstSize
       /\ mm'.AppendCalled =>
            /\ mm'.ChannelCalls = 2
            /\ mm'.Second = EFI_SUCCESS
       /\ (mm'.AppendCalled /\ Status' = EFI_SUCCESS /\ ~usedAfterFree') =>
            /\ CurrentTableSize' =
                 (IF HestTable = NULL THEN HeaderSize ELSE CurrentTableSize)
                   + mm'.Size
            /\ ErrorCount32(TableMem') =
                 (IF HestTable = NULL THEN 0 ELSE ErrorCount32(TableMem))
                   + mm'.Count
       /\ ~mm'.AppendCalled =>
            UNCHANGED << HestTable, CurrentTableSize, TableMem >>]_vars

C29_Witness ==
  /\ op = "Collect" /\ mm.Stage = "Append" /\ mm.AppendCalled
  /\ mm.ChannelCalls = 2 /\ mm.Second = EFI_SUCCESS
  /\ Status = EFI_SUCCESS /\ ~usedAfterFree
  /\ mm.Count > 0 /\ ErrorCount32(TableMem) > mm.Count

\* C30: when AppendMmErrorSources reads ErrSourceDescCount and
\* ErrSourceDescSize after the first call, the handler has assigned them
\* during that call.
C30_FieldsReadWereWritten ==
  (op = "Collect" /\ mm.Stage \notin {NoCall, "FirstAllocate", "FirstCall"})
    => mm.FirstWrote

====
